---- MODULE Spec2Model ----
(***************************************************************************)
(* The HTTP/3 client of quinn-h3 (client.rs) and the TLS session of        *)
(* quinn-proto (crypto.rs, crypto/rustls.rs), in four parts that share no  *)
(* state:                                                                  *)
(*   Spec         one request: Connection::send_request, the RecvResponse  *)
(*                future and its cancel();                                 *)
(*   SpecFlights  several requests in flight on one connection;            *)
(*   SpecClient   Builder, Client, Connecting and the Connection handle;   *)
(*   SpecTls      the TlsSession of each peer: handshake and key updates.  *)
(* The peer, the QPACK decoder, the QUIC endpoint and the TLS engine are   *)
(* the environment.                                                        *)
(***************************************************************************)
EXTENDS Naturals, Sequences, FiniteSets, TLC

\* ------------------------------------------------------------------ bounds
MaxRequests == 1      \* requests (streams) opened on the connection
MaxEvents == 2        \* stream events the peer delivers, over all streams
MaxInFlight == 2      \* requests in flight together
MaxConnects == 1      \* connection attempts a Client makes
MaxKeyUpdates == 2    \* update_keys calls of one peer

Streams == 1 .. MaxRequests
Requests == 1 .. MaxInFlight

\* ------------------------------------------------------------ vocabulary
NONE == "None"                       \* Option::None / a moved-out value
NoStream == 0                        \* no FrameStream held (None, or moved out)

\* HttpFrame variants the response stream can carry.
Reserved == "Reserved"
Headers == "Headers"
Data == "Data"
Frames == {Reserved, Headers, Data}

\* What FrameStream::poll_next can be Ready with: Some(Ok(frame)),
\* Some(Err(e)), None.
IoError == "Err(io)"
End == "End"
Items == Frames \cup {IoError}

\* ErrorCode values used on the receive half.
FRAME_UNEXPECTED == "FRAME_UNEXPECTED"
REQUEST_CANCELLED == "REQUEST_CANCELLED"

\* Values of Poll<Result<(Response, BodyReader), Error>>.
Pending == "Pending"
ReadyOk == "Ok"
ErrFinished == "Internal(recv response polled after finish)"
ErrEmpty == "Peer(received an empty response)"
ErrNotHeaders == "Peer(first frame is not headers)"
ErrStream == "Err(io)"
ErrDecode == "Err(decode)"
ErrBuild == "Err(response parts)"
Panicked == "panic"

VARIABLES
    pc,        \* pc[s]: where the send_request call that opened stream s stands
    body,      \* body[s]: the request body of that call
    sent,      \* sent[s]: frames written to the send half of s
    rr,        \* rr[s]: the RecvResponse of s
    inbox,     \* inbox[s]: items the FrameStream of s has buffered, unread
    fin,       \* fin[s]: the peer has finished s
    resets,    \* resets[s]: codes the receive half of s was reset with
    readers,   \* streams handed to BodyReader::new, in order
    nEvents,   \* stream events delivered so far
    resolved,  \* resolved[s]: a poll of rr[s] has returned Ready
    nOk,       \* nOk[s]: polls of rr[s] that returned Ready(Ok)
    returned,  \* returned[s]: what the send_request call on s returned
    trail,     \* trail[s]: the states rr[s] has been in, in order
    nDecoders, \* nDecoders[s]: DecodeHeaders futures rr[s] has made
    last       \* the last call on a RecvResponse: what it was given and did

pipelineVars ==
    <<pc, body, sent, rr, inbox, fin, resets, readers, nEvents, resolved, nOk,
      returned, trail, nDecoders, last>>

\* Several requests in flight on one connection, looked at from the streams:
\* what each RecvResponse holds and what each receive half has seen.
VARIABLES
    opened,    \* bidirectional streams the connection has opened
    streamOf,  \* streamOf[r]: the stream open_bi gave to request r
    flight,    \* flight[r]: the RecvResponse of request r
    wire,      \* wire[id]: the receive half of stream id: inbox, fin, resets
    fEvents    \* stream events delivered to the requests in flight

flightVars == <<opened, streamOf, flight, wire, fEvents>>

\* Builder, Client and the Connection handles of the connections dialled.
VARIABLES
    builder,   \* the Builder: its client_config and settings, until consumed
    client,    \* the Client: the endpoint it dials from
    conns      \* conns[i]: the i-th connection attempt and its handle

clientVars == <<builder, client, conns>>

\* The TLS sessions of the two peers of one connection (crypto/rustls.rs).
VARIABLES
    suite,     \* the cipher suite the handshake negotiates
    session,   \* session[side]: the TlsSession of that peer
    keys,      \* keys[side]: the 1-RTT Keys that peer holds
    updates,   \* updates[side]: update_keys calls that peer has made
    hs         \* the last call on a session: what it was given and returned

tlsVars == <<suite, session, keys, updates, hs>>

vars == <<pipelineVars, flightVars, clientVars, tlsVars>>

\* what the steps of one part of the model leave alone
notPipeline == <<flightVars, clientVars, tlsVars>>
notFlights == <<pipelineVars, clientVars, tlsVars>>
notClient == <<pipelineVars, flightVars, tlsVars>>
notTls == <<pipelineVars, flightVars, clientVars>>

\* --------------------------------------------------------- RecvResponse
\* state (the enum's tag), stream (the FrameStream inside Receiving),
\* decode (the DecodeHeaders inside Decoding), recv (the side slot).
NoDecode == NONE

DecodeHeadersNew(h) == "DecodeHeaders"

NoRecvResponse ==
    [state |-> NONE, stream |-> NoStream, decode |-> NoDecode, recv |-> NoStream]

\* a RecvResponse that was consumed by cancel() or dropped
Gone == [NoRecvResponse EXCEPT !.state = "Gone"]

RecvResponseNew(s) ==
    [state |-> "Receiving", stream |-> s, decode |-> NoDecode, recv |-> NoStream]

\* What polling the DecodeHeaders future gives: Pending (the block waits for
\* dynamic-table insertions), an error, or the decoded header, with or
\* without a :status.  The decoder is a collaborator: its answer is an input
\* of the poll.
HeaderOk == "Header(:status)"
HeaderNoStatus == "Header(no :status)"
DecodeResults == {Pending, ErrDecode, HeaderOk, HeaderNoStatus}

\* build_response: fails when into_response_parts does.
build_response(header) == IF header = HeaderOk THEN ReadyOk ELSE ErrBuild

\* reset(code) on a FrameStream
Reset(stream, code) == [stream |-> stream, code |-> code]

\* The context one call of poll works on: the RecvResponse, the unread items,
\* and what the call has done so far.
PollStart(r, buf) ==
    [rr |-> r, inbox |-> buf, out |-> Pending, items |-> <<>>, decoded |-> NONE,
     touched |-> FALSE, resets |-> <<>>, readers |-> <<>>, decoders |-> 0,
     path |-> <<>>]

Return(c, result) == [c EXCEPT !.out = result]

\* RecvResponseState::Finished => Ready(Err(internal))
OnFinished(c) == Return(c, ErrFinished)

\* poll_next gave None
OnNone(c) == Return(c, ErrEmpty)

\* poll_next gave Some(Err(e))
OnStreamError(c) == Return(c, ErrStream)

\* Faulty variant: Reserved falls into the arm of the unexpected frames
OnReserved_Unexpected(c) ==
    [c EXCEPT !.rr.state = "Finished",
              !.rr.stream = NoStream,
              !.resets = Append(@, Reset(c.rr.stream, FRAME_UNEXPECTED))]

\* HttpFrame::Reserved => ()
OnReserved(c) == c

\* Faulty variant: the stream taken out of Receiving is not kept
OnHeaders_LosesStream(c, h) ==
    [c EXCEPT !.rr.state = "Decoding",
              !.rr.decode = DecodeHeadersNew(h),
              !.rr.stream = NoStream,
              !.decoders = @ + 1,
              !.path = Append(@, "Decoding")]

\* HttpFrame::Headers(h): mem::replace puts Decoding in place and the stream
\* that was inside Receiving goes to the side slot; any other old state is
\* the unreachable!() arm
OnHeaders(c, h) ==
    IF c.rr.state # "Receiving" THEN Return(c, Panicked) ELSE
    [c EXCEPT !.rr.state = "Decoding",
              !.rr.decode = DecodeHeadersNew(h),
              !.rr.stream = NoStream,
              !.rr.recv = c.rr.stream,
              !.decoders = @ + 1,
              !.path = Append(@, "Decoding")]

\* Faulty variant: the unexpected frame fails the poll and nothing else
OnOtherFrame_ErrorOnly(c) == Return(c, ErrNotHeaders)

\* Faulty variant: the stream is reset and stays inside Receiving
OnOtherFrame_KeepsReceiving(c) ==
    Return([c EXCEPT !.resets = Append(@, Reset(c.rr.stream, FRAME_UNEXPECTED))],
           ErrNotHeaders)

\* any other frame: mem::replace puts Finished in place, the stream is reset;
\* any other old state is the unreachable!() arm
OnOtherFrame(c) ==
    IF c.rr.state # "Receiving" THEN Return(c, Panicked) ELSE
    Return([c EXCEPT !.rr.state = "Finished",
                     !.rr.stream = NoStream,
                     !.resets = Append(@, Reset(c.rr.stream, FRAME_UNEXPECTED)),
                     !.path = Append(@, "Finished")],
           ErrNotHeaders)

\* Faulty variant: a decoder error puts the stream back and receives again
OnDecodeError_ReceivesAgain(c) ==
    Return([c EXCEPT !.rr.state = "Receiving",
                     !.rr.decode = NoDecode,
                     !.rr.stream = c.rr.recv,
                     !.rr.recv = NoStream,
                     !.path = Append(@, "Receiving")],
           ErrDecode)

\* the ? on the decoder's result
OnDecodeError(c) == Return(c, ErrDecode)

\* Faulty variant: the reader is made before the response is looked at
OnBuildError_MakesReader(c) ==
    Return([c EXCEPT !.rr.recv = NoStream, !.readers = Append(@, c.rr.recv)],
           ErrBuild)

\* build_response gave Err(e)
OnBuildError(c) == Return(c, ErrBuild)

\* Faulty variant: the side slot is read for the reader, not taken
OnResponse_KeepsSlot(c) ==
    Return([c EXCEPT !.rr.state = "Finished",
                     !.rr.decode = NoDecode,
                     !.readers = Append(@, c.rr.recv)],
           ReadyOk)

\* build_response gave Ok(r): Finished, the side slot is taken for the reader
OnResponse(c) ==
    IF c.rr.recv = NoStream
    THEN Return([c EXCEPT !.rr.state = "Finished", !.rr.decode = NoDecode,
                          !.path = Append(@, "Finished")], Panicked)
    ELSE Return([c EXCEPT !.rr.state = "Finished",
                          !.rr.decode = NoDecode,
                          !.rr.recv = NoStream,
                          !.readers = Append(@, c.rr.recv),
                          !.path = Append(@, "Finished")],
                ReadyOk)

\* RecvResponse::poll.  ended: the peer has finished the stream; d: what the
\* decoder answers if it is polled.
RECURSIVE PollLoop(_, _, _)
PollLoop(c, ended, d) ==
    CASE c.out = Panicked -> c
      [] c.rr.state = "Finished" -> OnFinished(c)
      [] c.rr.state = "Receiving" ->
            LET t == [c EXCEPT !.touched = TRUE] IN
            IF c.inbox = <<>>
            THEN IF ended
                 THEN OnNone([t EXCEPT !.items = Append(@, End)])
                 ELSE Return(t, Pending)
            ELSE LET f == Head(c.inbox)
                     n == [t EXCEPT !.inbox = Tail(@), !.items = Append(@, f)]
                 IN  CASE f = IoError -> OnStreamError(n)
                       [] f = Reserved -> PollLoop(OnReserved(n), ended, d)
                       [] f = Headers -> PollLoop(OnHeaders(n, f), ended, d)
                       [] OTHER -> OnOtherFrame(n)
      [] c.rr.state = "Decoding" ->
            LET t == [c EXCEPT !.touched = TRUE, !.decoded = d] IN
            CASE d = Pending -> Return(t, Pending)
              [] d = ErrDecode -> OnDecodeError(t)
              [] build_response(d) = ReadyOk -> OnResponse(t)
              [] OTHER -> OnBuildError(t)

\* Faulty variant: cancel resets whichever stream the RecvResponse holds
cancel_AnyState(r) ==
    IF r.state = "Receiving" THEN <<Reset(r.stream, REQUEST_CANCELLED)>>
    ELSE IF r.state = "Decoding" THEN <<Reset(r.recv, REQUEST_CANCELLED)>>
    ELSE <<>>

\* RecvResponse::cancel: the resets it issues
cancel(r) ==
    IF r.state = "Receiving"
    THEN <<Reset(r.stream, REQUEST_CANCELLED)>>
    ELSE <<>>

\* Faulty variant: the drop resets nothing
drop_Silent(r) == <<>>

\* Dropping a RecvResponse without cancel(): the resets that follow.  client.rs
\* gives RecvResponse no destructor of its own; what the drop of the
\* FrameStream it holds does is outside these files and taken from the
\* specification's cancellation rule.
drop(r) ==
    IF r.state = "Receiving"
    THEN <<Reset(r.stream, REQUEST_CANCELLED)>>
    ELSE <<>>

\* ------------------------------------------------- send_request's result
\* BodyWriter::new(send, conn, stream_id, false): the send half it is given,
\* the stream id and the flag
NoBodyWriter == [send |-> NoStream, stream_id |-> NoStream, flag |-> FALSE]

BodyWriterNew(send, stream_id, flag) ==
    [send |-> send, stream_id |-> stream_id, flag |-> flag]

\* The Error a failing step of send_request is converted to by `?`.  The
\* conversions are outside these files; the variants are the specification's.
ErrorFrom(step) ==
    CASE step = "open_bi" -> "Error::Quic"
      [] step = "SendHeaders::new" -> "Error::HeaderEncoding"
      [] OTHER -> "Error::Quic"

\* no call has returned
NoReturn == [err |-> NONE, recv |-> NoRecvResponse, writer |-> NoBodyWriter]

\* Err(e)
ReturnErr(step) == [NoReturn EXCEPT !.err = ErrorFrom(step)]

\* Ok((recv, BodyWriter::new(send, self.0.clone(), stream_id, false)))
ReturnOk(recv, send, stream_id) ==
    [err |-> "Ok", recv |-> recv, writer |-> BodyWriterNew(send, stream_id, FALSE)]

\* ------------------------------------------------------ Builder, Client
\* crate::ALPN, the HTTP/3 identifier
ALPN == "h3"

\* quinn::ClientConfigBuilder / quinn::ClientConfig: the ALPN protocols it
\* offers, and whether a certificate authority was added
ClientConfigBuilderDefault == [protocols |-> <<>>, roots |-> FALSE]

\* the configurations a caller can come with
CallerConfigs ==
    {[protocols |-> p, roots |-> FALSE] : p \in {<<>>, <<ALPN>>, <<"hq">>, <<"hq", ALPN>>}}

\* client_config.protocols(&[..]).  The setter is outside these files; that
\* it fixes the list offered is the specification's.
protocols(config, list) == [config EXCEPT !.protocols = list]

NoBuilder == [state |-> NONE, client_config |-> ClientConfigBuilderDefault,
              settings |-> "default"]

\* Builder::with_quic_config
with_quic_config(client_config) ==
    [state |-> "Builder", client_config |-> protocols(client_config, <<ALPN>>),
     settings |-> "default"]

\* Builder::default
BuilderDefault == with_quic_config(ClientConfigBuilderDefault)

\* Client { endpoint, settings }: of the endpoint, its default client config
NoClient == [state |-> NONE, endpoint |-> ClientConfigBuilderDefault,
             settings |-> "default"]

ClientOf(endpoint, settings) ==
    [state |-> "Client", endpoint |-> endpoint, settings |-> settings]

\* the QUIC connection behind a handle: whether it was closed, and how
Open == [closed |-> FALSE, code |-> NONE, reason |-> NONE]

\* quic.close(code, reason)
Closed(code, reason) == [closed |-> TRUE, code |-> code, reason |-> reason]

\* Connecting { settings, connecting }: the attempt offers the protocols of
\* the configuration it was dialled with
ConnectingWith(config) ==
    [offered |-> config.protocols, handle |-> "Connecting", quic |-> Open,
     rekeyed |-> FALSE]

\* ------------------------------------------------------------ TlsSession
Sides == {"Client", "Server"}

\* the TLS 1.3 cipher suites: their hash and AEAD
Suites == {[hash |-> "SHA256", aead |-> "AES_128_GCM"],
           [hash |-> "SHA384", aead |-> "AES_256_GCM"]}

NoSuite == [hash |-> NONE, aead |-> NONE]

\* A traffic secret (hkdf::Prk), by how it was derived: the TLS direction,
\* the key phase, and the expansions applied since.
NoSecret == [dir |-> NONE, phase |-> 0, labels |-> <<>>]

\* The TLS engine and the HKDF are libraries.  The engine keeps the phase
\* (0 Initial, 1 Handshake, 2 1-RTT), whether the secrets of the next phase
\* are ready, the suite once negotiated and the alert once raised; what it
\* does is taken from the specification's session state machine.
TlsSecret(dir, phase) == [dir |-> dir, phase |-> phase, labels |-> <<>>]

NoAlert == NONE
AlertDescriptions == {"handshake_failure", "bad_certificate"}

\* AlertDescription::get_u8
get_u8(alert) ==
    CASE alert = "handshake_failure" -> 40
      [] alert = "bad_certificate" -> 42

\* ClientConfig::start_session / ServerConfig::start_session
StartSession(side) ==
    [side |-> side, phase |-> 0, ready |-> FALSE, suite |-> NoSuite,
     alert |-> NoAlert]

\* What read_hs can do with the bytes it is given: accept them, with or
\* without progress towards the next phase, or refuse them, with or without
\* raising an alert.
ReadOutcomes ==
    {[accepted |-> TRUE, progress |-> p, alert |-> NoAlert] : p \in BOOLEAN}
    \cup {[accepted |-> FALSE, progress |-> FALSE, alert |-> a] :
              a \in AlertDescriptions \cup {NoAlert}}

\* the session after rustls' read_hs(buf)
read_hs(s, o, negotiated) ==
    [s EXCEPT !.ready = @ \/ (o.progress /\ s.phase < 2),
              !.suite = IF o.progress THEN negotiated ELSE @,
              !.alert = IF o.alert # NoAlert THEN o.alert ELSE @]

\* rustls' write_hs(buf): the Secrets of the phase it crosses into, if any
NoSecrets == [client |-> NoSecret, server |-> NoSecret]

write_hs_secrets(s) ==
    IF s.ready
    THEN [client |-> TlsSecret("client", s.phase + 1),
          server |-> TlsSecret("server", s.phase + 1)]
    ELSE NoSecrets

\* the session after rustls' write_hs(buf)
write_hs(s) ==
    IF s.ready THEN [s EXCEPT !.phase = @ + 1, !.ready = FALSE] ELSE s

\* TransportError codes
TransportOk == [kind |-> "Ok", alert |-> 0]
crypto(u8) == [kind |-> "crypto", alert |-> u8]
PROTOCOL_VIOLATION == [kind |-> "PROTOCOL_VIOLATION", alert |-> 0]

\* Faulty variant: every failure is a protocol violation
read_handshake_NoAlerts(s, accepted) ==
    IF accepted THEN TransportOk ELSE PROTOCOL_VIOLATION

\* TlsSession::read_handshake: the result, given the session after read_hs and
\* whether read_hs accepted the bytes
read_handshake(s, accepted) ==
    IF accepted THEN TransportOk
    ELSE IF s.alert # NoAlert THEN crypto(get_u8(s.alert))
    ELSE PROTOCOL_VIOLATION

\* Crypto (the Keys of a session)
NoKeys == [side |-> NONE, aead |-> NONE, local_secret |-> NoSecret,
           remote_secret |-> NoSecret]

PanicKeys == [NoKeys EXCEPT !.side = Panicked]

\* Crypto::new(side, aead, client_secret, server_secret).  It is outside
\* these files; the direction mapping is the specification's.
CryptoNew(side, aead, client_secret, server_secret) ==
    [side |-> side, aead |-> aead,
     local_secret |-> IF side = "Client" THEN client_secret ELSE server_secret,
     remote_secret |-> IF side = "Client" THEN server_secret ELSE client_secret]

\* Faulty variant: the keys of a crossing are not handed on by a server
write_handshake_ServerKeepsKeys(s, secrets) ==
    IF secrets = NoSecrets \/ s.side = "Server" THEN NoKeys
    ELSE CryptoNew(s.side, s.suite.aead, secrets.client, secrets.server)

\* TlsSession::write_handshake: what it returns, given the session and what
\* write_hs returned (NoKeys stands for None)
write_handshake(s, secrets) ==
    IF secrets = NoSecrets THEN NoKeys
    ELSE IF s.suite = NoSuite THEN PanicKeys
    ELSE CryptoNew(s.side, s.suite.aead, secrets.client, secrets.server)

\* hkdf_expand(prk, label, alg): a secret derived from prk, the label and the
\* algorithm.  The HKDF is a library: the derivation is kept by name.
hkdf_expand(prk, label, alg) == [prk EXCEPT !.labels = Append(@, <<label, alg>>)]

\* update_secrets(hash_alg, client, server)
update_secrets(hash_alg, client_secret, server_secret) ==
    IF hash_alg \in {"SHA256", "SHA384", "SHA512"}
    THEN [client |-> hkdf_expand(client_secret, "quic ku", hash_alg),
          server |-> hkdf_expand(server_secret, "quic ku", hash_alg)]
    ELSE [client |-> [NoSecret EXCEPT !.dir = Panicked],
          server |-> [NoSecret EXCEPT !.dir = Panicked]]

\* Faulty variant: a server reads its key pair the way a client does
update_keys_SameMapping(s, k) ==
    LET secrets == update_secrets(s.suite.hash, k.local_secret, k.remote_secret)
    IN  CryptoNew(s.side, s.suite.aead, secrets.client, secrets.server)

\* TlsSession::update_keys(&self, keys)
update_keys(s, k) ==
    IF s.suite = NoSuite THEN PanicKeys ELSE
    LET client_secret == IF s.side = "Client" THEN k.local_secret ELSE k.remote_secret
        server_secret == IF s.side = "Client" THEN k.remote_secret ELSE k.local_secret
        secrets == update_secrets(s.suite.hash, client_secret, server_secret)
    IN  CryptoNew(s.side, s.suite.aead, secrets.client, secrets.server)

\* Faulty variant: the pair passed in is advanced in place
update_keys_call_InPlace(s, k) ==
    [session |-> s, keys |-> update_keys(s, k), returned |-> update_keys(s, k)]

\* A call update_keys(&self, keys: &Keys) -> Keys: the session and the pair
\* it borrowed, as the call leaves them, and the pair it returns
update_keys_call(s, k) ==
    [session |-> s, keys |-> k, returned |-> update_keys(s, k)]

\* the record of a call on a session; for update_keys also the session as it
\* was, the pair given, that pair as the call left it, and what a second call
\* on what the first left returns
NoHandshakeCall ==
    [op |-> NONE, side |-> NONE, before |-> 0, after |-> 0, accepted |-> FALSE,
     result |-> TransportOk, keys |-> NoKeys, was |-> StartSession(NONE),
     given |-> NoKeys, left |-> NoKeys, again |-> NoKeys]

\* ----------------------------------------------------------------- state
\* a receive half nothing has happened on
NoTraffic == [inbox |-> <<>>, fin |-> FALSE, resets |-> <<>>]

NoCall ==
    [op |-> NONE, stream |-> NoStream, pre |-> NoRecvResponse, after |-> FALSE,
     items |-> <<>>, decoded |-> NONE, touched |-> FALSE, out |-> NONE,
     resets |-> <<>>, readers |-> <<>>]

Init ==
    /\ suite = NoSuite
    /\ session = [side \in Sides |-> StartSession(side)]
    /\ keys = [side \in Sides |-> NoKeys]
    /\ updates = [side \in Sides |-> 0]
    /\ hs = NoHandshakeCall
    /\ builder = NoBuilder
    /\ client = NoClient
    /\ conns = <<>>
    /\ opened = 0
    /\ streamOf = [r \in Requests |-> NoStream]
    /\ flight = [r \in Requests |-> NoRecvResponse]
    /\ wire = [id \in Requests |-> NoTraffic]
    /\ fEvents = 0
    /\ pc = [s \in Streams |-> "idle"]
    /\ body = [s \in Streams |-> NONE]
    /\ sent = [s \in Streams |-> <<>>]
    /\ rr = [s \in Streams |-> NoRecvResponse]
    /\ inbox = [s \in Streams |-> <<>>]
    /\ fin = [s \in Streams |-> FALSE]
    /\ resets = [s \in Streams |-> <<>>]
    /\ readers = <<>>
    /\ nEvents = 0
    /\ resolved = [s \in Streams |-> FALSE]
    /\ nOk = [s \in Streams |-> 0]
    /\ returned = [s \in Streams |-> NoReturn]
    /\ trail = [s \in Streams |-> <<>>]
    /\ nDecoders = [s \in Streams |-> 0]
    /\ last = NoCall

\* the codes among rs that hit stream s, in order
RECURSIVE CodesOn(_, _)
CodesOn(rs, s) ==
    IF rs = <<>> THEN <<>>
    ELSE (IF Head(rs).stream = s THEN <<Head(rs).code>> ELSE <<>>)
         \o CodesOn(Tail(rs), s)

ApplyResets(rs) == [s \in Streams |-> resets[s] \o CodesOn(rs, s)]

\* ------------------------------------------------------------ send_request
\* self.0.quic.open_bi().await?  (streams are numbered in opening order)
OpenBi(s, b) ==
    /\ pc[s] = "idle"
    /\ \A t \in Streams : t < s => pc[t] # "idle"
    /\ \/ /\ pc' = [pc EXCEPT ![s] = "opened"]
          /\ body' = [body EXCEPT ![s] = b]
          /\ UNCHANGED returned
       \/ /\ pc' = [pc EXCEPT ![s] = "Err(open_bi)"]
          /\ returned' = [returned EXCEPT ![s] = ReturnErr("open_bi")]
          /\ UNCHANGED body
    /\ UNCHANGED <<sent, rr, inbox, fin, resets, readers, nEvents, resolved, nOk, trail,
                 nDecoders, last>>
    /\ UNCHANGED notPipeline

\* Faulty variant: the body is written before the headers
SendHeaders_BodyFirst(s) ==
    /\ pc[s] = "opened"
    /\ sent' = [sent EXCEPT ![s] =
                    IF body[s] = "Buf" THEN <<"DATA", "HEADERS">> ELSE <<"HEADERS">>]
    /\ rr' = [rr EXCEPT ![s] = RecvResponseNew(s)]
    /\ trail' = [trail EXCEPT ![s] = <<"Receiving">>]
    /\ pc' = [pc EXCEPT ![s] = "Ok"]
    /\ returned' = [returned EXCEPT ![s] = ReturnOk(RecvResponseNew(s), s, s)]
    /\ UNCHANGED <<body, inbox, fin, resets, readers, nEvents, resolved, nOk, nDecoders, last>>
    /\ UNCHANGED notPipeline

\* Faulty variant: the HEADERS frame is on the stream before the headers are
\* found invalid
SendHeaders_WritesThenFails(s) ==
    /\ pc[s] = "opened"
    /\ sent' = [sent EXCEPT ![s] = Append(@, "HEADERS")]
    /\ \/ /\ pc' = [pc EXCEPT ![s] = "Err(SendHeaders::new)"]
          /\ returned' = [returned EXCEPT ![s] = ReturnErr("SendHeaders::new")]
          /\ UNCHANGED <<rr, trail>>
       \/ /\ rr' = [rr EXCEPT ![s] = RecvResponseNew(s)]
          /\ trail' = [trail EXCEPT ![s] = <<"Receiving">>]
          /\ pc' = [pc EXCEPT ![s] = IF body[s] = "Buf" THEN "body" ELSE "Ok"]
          /\ returned' = [returned EXCEPT ![s] =
                IF body[s] = "Buf" THEN @ ELSE ReturnOk(RecvResponseNew(s), s, s)]
    /\ UNCHANGED <<body, inbox, fin, resets, readers, nEvents, resolved, nOk, nDecoders, last>>
    /\ UNCHANGED notPipeline

\* SendHeaders::new(..)?.await?, then RecvResponse::new; with Body::None the
\* call returns here.  new() fails before the future it would have made is
\* polled; the awaited future fails on the stream.
SendHeaders(s) ==
    /\ pc[s] = "opened"
    /\ \/ /\ pc' = [pc EXCEPT ![s] = "Err(SendHeaders::new)"]
          /\ returned' = [returned EXCEPT ![s] = ReturnErr("SendHeaders::new")]
          /\ UNCHANGED <<sent, rr, trail>>
       \/ /\ pc' = [pc EXCEPT ![s] = "Err(SendHeaders)"]
          /\ returned' = [returned EXCEPT ![s] = ReturnErr("SendHeaders")]
          /\ UNCHANGED <<sent, rr, trail>>
       \/ /\ sent' = [sent EXCEPT ![s] = Append(@, "HEADERS")]
          /\ rr' = [rr EXCEPT ![s] = RecvResponseNew(s)]
          /\ trail' = [trail EXCEPT ![s] = <<"Receiving">>]
          /\ pc' = [pc EXCEPT ![s] = IF body[s] = "Buf" THEN "body" ELSE "Ok"]
          /\ returned' = [returned EXCEPT ![s] =
                IF body[s] = "Buf" THEN @ ELSE ReturnOk(RecvResponseNew(s), s, s)]
    /\ UNCHANGED <<body, inbox, fin, resets, readers, nEvents, resolved, nOk, nDecoders, last>>
    /\ UNCHANGED notPipeline

\* Faulty variant: the buffer goes out as two DATA frames
WriteData_Split(s) ==
    /\ pc[s] = "body"
    /\ sent' = [sent EXCEPT ![s] = @ \o <<"DATA", "DATA">>]
    /\ pc' = [pc EXCEPT ![s] = "Ok"]
    /\ returned' = [returned EXCEPT ![s] = ReturnOk(rr[s], s, s)]
    /\ UNCHANGED <<rr, resets, last>>
    /\ UNCHANGED <<body, inbox, fin, readers, nEvents, resolved, nOk, trail, nDecoders>>
    /\ UNCHANGED notPipeline

\* Body::Buf: WriteFrame::new(send, DataFrame { payload }).await?; on the
\* error the RecvResponse just built is dropped with the call's locals
WriteData(s) ==
    /\ pc[s] = "body"
    /\ \/ /\ sent' = [sent EXCEPT ![s] = Append(@, "DATA")]
          /\ pc' = [pc EXCEPT ![s] = "Ok"]
          /\ returned' = [returned EXCEPT ![s] = ReturnOk(rr[s], s, s)]
          /\ UNCHANGED <<rr, resets, last>>
       \/ /\ pc' = [pc EXCEPT ![s] = "Err(WriteFrame)"]
          /\ returned' = [returned EXCEPT ![s] = ReturnErr("WriteFrame")]
          /\ resets' = ApplyResets(drop(rr[s]))
          /\ rr' = [rr EXCEPT ![s] = Gone]
          /\ last' = [NoCall EXCEPT !.op = "drop", !.stream = s, !.pre = rr[s],
                                    !.resets = drop(rr[s])]
          /\ UNCHANGED sent
    /\ UNCHANGED <<body, inbox, fin, readers, nEvents, resolved, nOk, trail, nDecoders>>
    /\ UNCHANGED notPipeline

\* ------------------------------------------------------------ environment
\* The peer's frames and stream errors reach the FrameStream of s.  Only what
\* RecvResponse can still read is delivered: it reads the stream in Receiving
\* alone, and is first polled after send_request has returned it.
Deliver(s, f) ==
    /\ pc[s] = "Ok"
    /\ rr[s].state = "Receiving"
    /\ ~fin[s]
    /\ nEvents < MaxEvents
    /\ inbox' = [inbox EXCEPT ![s] = Append(@, f)]
    /\ nEvents' = nEvents + 1
    /\ UNCHANGED <<pc, body, sent, rr, fin, resets, readers, resolved, nOk, last, returned,
                 trail, nDecoders>>
    /\ UNCHANGED notPipeline

Finish(s) ==
    /\ pc[s] = "Ok"
    /\ rr[s].state = "Receiving"
    /\ ~fin[s]
    /\ nEvents < MaxEvents
    /\ fin' = [fin EXCEPT ![s] = TRUE]
    /\ nEvents' = nEvents + 1
    /\ UNCHANGED <<pc, body, sent, rr, inbox, resets, readers, resolved, nOk, last, returned,
                 trail, nDecoders>>
    /\ UNCHANGED notPipeline

\* ------------------------------------------------------------ RecvResponse
\* cancel() and the drop destroy the RecvResponse with the stream it holds and
\* what that stream had buffered.
Live(s) == pc[s] = "Ok" /\ rr[s].state \in {"Receiving", "Decoding", "Finished"}

Poll(s, d) ==
    /\ Live(s)
    /\ LET c == PollLoop(PollStart(rr[s], inbox[s]), fin[s], d) IN
       /\ rr' = [rr EXCEPT ![s] = c.rr]
       /\ inbox' = [inbox EXCEPT ![s] = c.inbox]
       /\ resets' = ApplyResets(c.resets)
       /\ readers' = readers \o c.readers
       /\ resolved' = [resolved EXCEPT ![s] = @ \/ c.out # Pending]
       /\ nOk' = [nOk EXCEPT ![s] = IF c.out = ReadyOk THEN @ + 1 ELSE @]
       /\ trail' = [trail EXCEPT ![s] = @ \o c.path]
       /\ nDecoders' = [nDecoders EXCEPT ![s] = @ + c.decoders]
       /\ last' = [op |-> "poll", stream |-> s, pre |-> rr[s],
                   after |-> resolved[s], items |-> c.items,
                   decoded |-> c.decoded, touched |-> c.touched, out |-> c.out,
                   resets |-> c.resets, readers |-> c.readers]
    /\ UNCHANGED <<pc, body, sent, fin, nEvents, returned>>
    /\ UNCHANGED notPipeline

Cancel(s) ==
    /\ Live(s)
    /\ resets' = ApplyResets(cancel(rr[s]))
    /\ rr' = [rr EXCEPT ![s] = Gone]
    /\ inbox' = [inbox EXCEPT ![s] = <<>>]
    /\ last' = [NoCall EXCEPT !.op = "cancel", !.stream = s, !.pre = rr[s],
                              !.after = resolved[s], !.resets = cancel(rr[s])]
    /\ UNCHANGED <<pc, body, sent, fin, readers, nEvents, resolved, nOk, returned, trail,
                 nDecoders>>
    /\ UNCHANGED notPipeline

Drop(s) ==
    /\ Live(s)
    /\ resets' = ApplyResets(drop(rr[s]))
    /\ rr' = [rr EXCEPT ![s] = Gone]
    /\ inbox' = [inbox EXCEPT ![s] = <<>>]
    /\ last' = [NoCall EXCEPT !.op = "drop", !.stream = s, !.pre = rr[s],
                              !.after = resolved[s], !.resets = drop(rr[s])]
    /\ UNCHANGED <<pc, body, sent, fin, readers, nEvents, resolved, nOk, returned, trail,
                 nDecoders>>
    /\ UNCHANGED notPipeline

Next ==
    \/ \E s \in Streams, b \in {NONE, "Buf"} : OpenBi(s, b)
    \/ \E s \in Streams : SendHeaders(s)
    \/ \E s \in Streams : WriteData(s)
    \/ \E s \in Streams, f \in Items : Deliver(s, f)
    \/ \E s \in Streams : Finish(s)
    \/ \E s \in Streams, d \in DecodeResults : Poll(s, d)
    \/ \E s \in Streams : Cancel(s)
    \/ \E s \in Streams : Drop(s)

Spec == Init /\ [][Next]_vars

\* ------------------------------------------------- requests in flight
\* quic.open_bi(): the stream a connection that has opened n streams gives
\* next.  The allocation is outside these files; that the stream is fresh is
\* the specification's.
open_bi(n) == n + 1

\* the stream a RecvResponse holds, in Receiving or in the side slot
Held(r) == IF r.stream # NoStream THEN r.stream ELSE r.recv

\* the resets rs applied to the receive halves
Hit(rs) == [id \in Requests |-> [wire[id] EXCEPT !.resets = @ \o CodesOn(rs, id)]]

\* Faulty variant: every RecvResponse is built over the first stream
SendRequest_SharedStream(r) ==
    /\ flight[r] = NoRecvResponse
    /\ \A q \in Requests : q < r => flight[q] # NoRecvResponse
    /\ opened' = opened + 1
    /\ streamOf' = [streamOf EXCEPT ![r] = open_bi(opened)]
    /\ flight' = [flight EXCEPT ![r] = RecvResponseNew(1)]
    /\ UNCHANGED <<wire, fEvents>>
    /\ UNCHANGED notFlights

\* a send_request that succeeds: open_bi, then RecvResponse::new over the
\* receive half it returned
SendRequest(r) ==
    /\ flight[r] = NoRecvResponse
    /\ \A q \in Requests : q < r => flight[q] # NoRecvResponse
    /\ opened' = opened + 1
    /\ streamOf' = [streamOf EXCEPT ![r] = open_bi(opened)]
    /\ flight' = [flight EXCEPT ![r] = RecvResponseNew(open_bi(opened))]
    /\ UNCHANGED <<wire, fEvents>>
    /\ UNCHANGED notFlights

\* the peer's frames and stream errors on stream id, while its request reads
PeerSends(id, f) ==
    /\ \E r \in Requests : streamOf[r] = id /\ flight[r].state = "Receiving"
    /\ ~wire[id].fin
    /\ fEvents < MaxEvents
    /\ wire' = [wire EXCEPT ![id].inbox = Append(@, f)]
    /\ fEvents' = fEvents + 1
    /\ UNCHANGED <<opened, streamOf, flight>>
    /\ UNCHANGED notFlights

PeerFinishes(id) ==
    /\ \E r \in Requests : streamOf[r] = id /\ flight[r].state = "Receiving"
    /\ ~wire[id].fin
    /\ fEvents < MaxEvents
    /\ wire' = [wire EXCEPT ![id].fin = TRUE]
    /\ fEvents' = fEvents + 1
    /\ UNCHANGED <<opened, streamOf, flight>>
    /\ UNCHANGED notFlights

InFlight(r) == flight[r].state \in {"Receiving", "Decoding", "Finished"}

\* RecvResponse::poll of request r: it reads the stream it holds
PollFlight(r, d) ==
    /\ InFlight(r)
    /\ LET id == flight[r].stream
           c == PollLoop(PollStart(flight[r],
                                   IF id = NoStream THEN <<>> ELSE wire[id].inbox),
                         IF id = NoStream THEN FALSE ELSE wire[id].fin, d)
       IN  /\ flight' = [flight EXCEPT ![r] = c.rr]
           /\ wire' = [i \in Requests |->
                        [Hit(c.resets)[i] EXCEPT !.inbox = IF i = id THEN c.inbox ELSE @]]
    /\ UNCHANGED <<opened, streamOf, fEvents>>
    /\ UNCHANGED notFlights

\* RecvResponse::cancel of request r; the stream it holds goes with it
CancelFlight(r) ==
    /\ InFlight(r)
    /\ flight' = [flight EXCEPT ![r] = Gone]
    /\ wire' = [i \in Requests |->
                 [Hit(cancel(flight[r]))[i] EXCEPT
                     !.inbox = IF i = Held(flight[r]) THEN <<>> ELSE @]]
    /\ UNCHANGED <<opened, streamOf, fEvents>>
    /\ UNCHANGED notFlights

NextFlights ==
    \/ \E r \in Requests : SendRequest(r)
    \/ \E id \in Requests, f \in Items : PeerSends(id, f)
    \/ \E id \in Requests : PeerFinishes(id)
    \/ \E r \in Requests, d \in DecodeResults : PollFlight(r, d)
    \/ \E r \in Requests : CancelFlight(r)

SpecFlights == Init /\ [][NextFlights]_vars

\* ------------------------------------------------------ Builder, Client
Default ==
    /\ builder.state = NONE
    /\ client.state = NONE
    /\ builder' = BuilderDefault
    /\ UNCHANGED <<client, conns>>
    /\ UNCHANGED notClient

WithQuicConfig(client_config) ==
    /\ builder.state = NONE
    /\ client.state = NONE
    /\ builder' = with_quic_config(client_config)
    /\ UNCHANGED <<client, conns>>
    /\ UNCHANGED notClient

\* Builder::settings
SetSettings ==
    /\ builder.state = "Builder"
    /\ builder' = [builder EXCEPT !.settings = "custom"]
    /\ UNCHANGED <<client, conns>>
    /\ UNCHANGED notClient

\* Builder::add_certificate_authority
AddCertificateAuthority ==
    /\ builder.state = "Builder"
    /\ \/ builder' = [builder EXCEPT !.client_config.roots = TRUE]
       \/ UNCHANGED builder
    /\ UNCHANGED <<client, conns>>
    /\ UNCHANGED notClient

\* Builder::endpoint: the caller's endpoint is taken as it is; the Builder,
\* with its client_config, is consumed
Endpoint(endpoint) ==
    /\ builder.state = "Builder"
    /\ client' = ClientOf(endpoint, builder.settings)
    /\ builder' = NoBuilder
    /\ UNCHANGED conns
    /\ UNCHANGED notClient

\* Builder::build: a new endpoint whose default client config is the
\* Builder's; or the bind fails
Build ==
    /\ builder.state = "Builder"
    /\ \/ client' = ClientOf(builder.client_config, builder.settings)
       \/ UNCHANGED client
    /\ builder' = NoBuilder
    /\ UNCHANGED conns
    /\ UNCHANGED notClient

\* Client::connect: endpoint.connect dials with the endpoint's default config
Connect ==
    /\ client.state = "Client"
    /\ Len(conns) < MaxConnects
    /\ conns' = Append(conns, ConnectingWith(client.endpoint))
    /\ UNCHANGED <<builder, client>>
    /\ UNCHANGED notClient

\* Client::connect_with: endpoint.connect_with dials with the config given
ConnectWith(client_config) ==
    /\ client.state = "Client"
    /\ Len(conns) < MaxConnects
    /\ conns' = Append(conns, ConnectingWith(client_config))
    /\ UNCHANGED <<builder, client>>
    /\ UNCHANGED notClient

\* Connecting::poll is Ready: with the Connection handle, or with an error
Connected(i) ==
    /\ i \in DOMAIN conns
    /\ conns[i].handle = "Connecting"
    /\ \/ conns' = [conns EXCEPT ![i].handle = "Connection"]
       \/ conns' = [conns EXCEPT ![i].handle = "Err"]
    /\ UNCHANGED <<builder, client>>
    /\ UNCHANGED notClient

\* Faulty variant: close gives another code
Close_OtherCode(i) ==
    /\ i \in DOMAIN conns
    /\ conns[i].handle = "Connection"
    /\ conns' = [conns EXCEPT ![i].handle = "closed",
                              ![i].quic = Closed("INTERNAL_ERROR", "Connection closed")]
    /\ UNCHANGED <<builder, client>>
    /\ UNCHANGED notClient

\* Connection::close(self)
Close(i) ==
    /\ i \in DOMAIN conns
    /\ conns[i].handle = "Connection"
    /\ conns' = [conns EXCEPT ![i].handle = "closed",
                              ![i].quic = Closed("NO_ERROR", "Connection closed")]
    /\ UNCHANGED <<builder, client>>
    /\ UNCHANGED notClient

\* Connection::force_key_update(&self)
ForceKeyUpdate(i) ==
    /\ i \in DOMAIN conns
    /\ conns[i].handle = "Connection"
    /\ conns' = [conns EXCEPT ![i].rekeyed = TRUE]
    /\ UNCHANGED <<builder, client>>
    /\ UNCHANGED notClient

\* The Connection handle is dropped.  client.rs gives Connection no
\* destructor; what dropping the ConnectionRef inside it does is outside
\* these files and taken from the specification: the connection stays open.
DropConnection(i) ==
    /\ i \in DOMAIN conns
    /\ conns[i].handle = "Connection"
    /\ conns' = [conns EXCEPT ![i].handle = "dropped"]
    /\ UNCHANGED <<builder, client>>
    /\ UNCHANGED notClient

NextClient ==
    \/ Default
    \/ \E c \in CallerConfigs : WithQuicConfig(c)
    \/ SetSettings
    \/ AddCertificateAuthority
    \/ \E e \in CallerConfigs : Endpoint(e)
    \/ Build
    \/ Connect
    \/ \E c \in CallerConfigs : ConnectWith(c)
    \/ \E i \in 1 .. MaxConnects : Connected(i)
    \/ \E i \in 1 .. MaxConnects : Close(i)
    \/ \E i \in 1 .. MaxConnects : ForceKeyUpdate(i)
    \/ \E i \in 1 .. MaxConnects : DropConnection(i)

SpecClient == Init /\ [][NextClient]_vars

\* ------------------------------------------------------------ TlsSession
\* read_handshake(buf) on the session of a peer; n is the suite the peers
\* negotiate, fixed by the first flight that makes progress
ReadHandshake(side, o, n) ==
    /\ LET negotiated == IF suite = NoSuite THEN n ELSE suite
           after == read_hs(session[side], o, negotiated)
       IN
         /\ suite' = IF o.progress THEN negotiated ELSE suite
         /\ session' = [session EXCEPT ![side] = after]
         /\ hs' = [NoHandshakeCall EXCEPT
                     !.op = "read_handshake", !.side = side,
                     !.before = session[side].phase, !.after = after.phase,
                     !.accepted = o.accepted,
                     !.result = read_handshake(after, o.accepted)]
    /\ UNCHANGED <<keys, updates>>
    /\ UNCHANGED notTls

\* write_handshake(buf) on the session of a peer; the transport keeps the
\* 1-RTT keys it is given
WriteHandshake(side) ==
    /\ LET after == write_hs(session[side])
           k == write_handshake(after, write_hs_secrets(session[side]))
       IN  /\ session' = [session EXCEPT ![side] = after]
           /\ keys' = [keys EXCEPT ![side] =
                          IF k # NoKeys /\ after.phase = 2 THEN k ELSE @]
           /\ hs' = [NoHandshakeCall EXCEPT
                       !.op = "write_handshake", !.side = side,
                       !.before = session[side].phase, !.after = after.phase,
                       !.keys = k]
    /\ UNCHANGED <<suite, updates>>
    /\ UNCHANGED notTls

\* update_keys(&keys) by a peer that holds 1-RTT keys; the transport keeps
\* the new pair
UpdateKeys(side) ==
    /\ keys[side] # NoKeys
    /\ updates[side] < MaxKeyUpdates
    /\ LET call == update_keys_call(session[side], keys[side]) IN
         /\ session' = [session EXCEPT ![side] = call.session]
         /\ keys' = [keys EXCEPT ![side] = call.returned]
         /\ hs' = [NoHandshakeCall EXCEPT
                     !.op = "update_keys", !.side = side,
                     !.before = session[side].phase, !.after = call.session.phase,
                     !.keys = call.returned,
                     !.was = session[side],
                     !.given = keys[side],
                     !.left = call.keys,
                     !.again = update_keys_call(call.session, call.keys).returned]
    /\ updates' = [updates EXCEPT ![side] = @ + 1]
    /\ UNCHANGED suite
    /\ UNCHANGED notTls

\* the operations of Session that take &self and return what the engine
\* reports
Query(side, op) ==
    /\ hs' = [NoHandshakeCall EXCEPT
                !.op = op, !.side = side,
                !.before = session[side].phase, !.after = session[side].phase]
    /\ UNCHANGED <<suite, session, keys, updates>>
    /\ UNCHANGED notTls

NextTls ==
    \/ \E side \in Sides, o \in ReadOutcomes, n \in Suites : ReadHandshake(side, o, n)
    \/ \E side \in Sides : WriteHandshake(side)
    \/ \E side \in Sides : UpdateKeys(side)
    \/ \E side \in Sides, op \in {"alpn_protocol", "is_handshaking"} : Query(side, op)

SpecTls == Init /\ [][NextTls]_vars

\* ================================================================ claims
Count(seq, x) == Cardinality({i \in DOMAIN seq : seq[i] = x})

LastItem(items) == items[Len(items)]

\* the last call on a RecvResponse was a poll
Polled == last.op = "poll"

\* the items of a poll are Reserved frames up to a first other item
FirstOther(items) ==
    IF \E i \in DOMAIN items : items[i] # Reserved
    THEN items[CHOOSE i \in DOMAIN items :
                   /\ items[i] # Reserved
                   /\ \A j \in 1 .. i - 1 : items[j] = Reserved]
    ELSE NONE

\* C1: a poll in Receiving whose first frame other than Reserved is not
\* HEADERS resets the stream with FRAME_UNEXPECTED, fails with
\* Peer("first frame is not headers") and leaves the state Finished.
C1_UnexpectedFirstFrame ==
    (/\ Polled
     /\ last.pre.state = "Receiving"
     /\ FirstOther(last.items) \in Frames \ {Reserved, Headers})
    => /\ last.out = ErrNotHeaders
       /\ last.resets = <<Reset(last.stream, FRAME_UNEXPECTED)>>
       /\ resets[last.stream] = <<FRAME_UNEXPECTED>>
       /\ rr[last.stream].state = "Finished"

C1_Witness ==
    /\ Polled
    /\ last.pre.state = "Receiving"
    /\ last.items = <<Reserved, Data>>
    /\ last.out = ErrNotHeaders
    /\ resets[last.stream] = <<FRAME_UNEXPECTED>>

\* C2: once a poll of a RecvResponse has resolved, every later poll returns
\* the internal error "recv response polled after finish" and reads neither
\* the stream nor the decoder.
C2_PolledAfterResolved ==
    (Polled /\ last.after) => (last.out = ErrFinished /\ ~last.touched)

\* C3: the receive half has one holder or has been consumed: inside Receiving,
\* in the side slot while Decoding, or with the one BodyReader made on the
\* successful resolution; never in two places, never with two readers.
Holders(s) ==
    (IF rr[s].stream = s THEN 1 ELSE 0) + (IF rr[s].recv = s THEN 1 ELSE 0)
    + Count(readers, s)

C3_SingleOwner ==
    \A s \in Streams :
        /\ rr[s].stream \in {NoStream, s}
        /\ rr[s].recv \in {NoStream, s}
        /\ Holders(s) <= 1
        /\ rr[s].state = "Receiving" => rr[s].stream = s
        /\ rr[s].state = "Decoding" => rr[s].recv = s
        /\ rr[s].state = "Finished" => (Count(readers, s) = 1 \/ resets[s] # <<>>)
        /\ Count(readers, s) = 1 => (nOk[s] = 1 /\ resets[s] = <<>>)

C3_Witness ==
    /\ Polled
    /\ last.pre.state = "Decoding"
    /\ last.pre.recv = last.stream
    /\ rr[last.stream].state = "Finished"
    /\ readers = <<last.stream>>

\* C4: what send_request writes to the stream it opened starts with one
\* HEADERS frame: no DATA before it, no second HEADERS.
C4_HeadersFirst ==
    \A s \in Streams :
        /\ sent[s] \in {<<>>, <<"HEADERS">>, <<"HEADERS", "DATA">>}
        /\ pc[s] = "body" => sent[s] = <<"HEADERS">>
        /\ pc[s] = "Ok" => sent[s] # <<>>

C4_Witness == \E s \in Streams : pc[s] = "Ok" /\ sent[s] = <<"HEADERS", "DATA">>

\* C5: a RecvResponse resolves Ok at most once, after a HEADERS frame was
\* received, its block decoded and the response built; the BodyReader is made
\* in that step alone, over the stream the frame came from, and not when
\* decoding or building fails.
C5_OkOnce ==
    /\ \A s \in Streams : nOk[s] <= 1 /\ Count(readers, s) = nOk[s]
    /\ Polled =>
        /\ last.out = ReadyOk =>
            /\ last.decoded = HeaderOk
            /\ \/ last.pre.state = "Decoding"
               \/ last.pre.state = "Receiving" /\ FirstOther(last.items) = Headers
            /\ last.readers = <<last.stream>>
            /\ rr[last.stream].state = "Finished"
        /\ last.out # ReadyOk => last.readers = <<>>

C5_Witness ==
    /\ Polled
    /\ last.out = ReadyOk
    /\ last.pre.state = "Receiving"
    /\ last.readers = <<last.stream>>

\* C6: a poll in Receiving that finds the stream ended with no frame fails
\* with Peer("received an empty response") and leaves the state Finished.
C6_EmptyResponse ==
    (Polled /\ last.pre.state = "Receiving" /\ last.items = <<End>>)
    => (last.out = ErrEmpty /\ rr[last.stream].state = "Finished")

\* C7: cancel() resets the receive half with REQUEST_CANCELLED if and only if
\* the state is Receiving; in Decoding and Finished it resets nothing.
C7_CancelResets ==
    last.op = "cancel" =>
        IF last.pre.state = "Receiving"
        THEN /\ last.resets = <<Reset(last.stream, REQUEST_CANCELLED)>>
             /\ resets[last.stream] = <<REQUEST_CANCELLED>>
        ELSE /\ last.resets = <<>>
             /\ Count(resets[last.stream], REQUEST_CANCELLED) = 0

C7_Witness ==
    /\ last.op = "cancel"
    /\ last.pre.state = "Receiving"
    /\ last.after
    /\ resets[last.stream] = <<REQUEST_CANCELLED>>

C9_ErrorsFinish ==
    Polled =>
        /\ (last.items # <<>> /\ LastItem(last.items) = IoError)
           => (last.out = ErrStream /\ rr[last.stream].state = "Finished")
        /\ last.decoded = ErrDecode
           => (last.out = ErrDecode /\ rr[last.stream].state = "Finished")

\* C10: a Reserved frame read while Receiving is ignored (no resolution, no
\* reset, still Receiving), and a poll does what it would have done had the
\* Reserved frames before the first other item not been there.
RECURSIVE StripReserved(_)
StripReserved(items) ==
    IF items # <<>> /\ Head(items) = Reserved
    THEN StripReserved(Tail(items))
    ELSE items

WithoutEnd(items) == SelectSeq(items, LAMBDA x : x # End)

C10_ReservedIgnored ==
    Polled =>
        /\ (/\ last.pre.state = "Receiving"
            /\ last.items # <<>>
            /\ \A i \in DOMAIN last.items : last.items[i] = Reserved)
           => /\ last.out = Pending
              /\ last.resets = <<>>
              /\ rr[last.stream] = last.pre
        /\ LET c == PollLoop(PollStart(last.pre,
                                       StripReserved(WithoutEnd(last.items))),
                             Count(last.items, End) > 0,
                             IF last.decoded = NONE THEN Pending ELSE last.decoded)
           IN  /\ c.out = last.out
               /\ c.rr = rr[last.stream]
               /\ c.resets = last.resets
               /\ c.readers = last.readers
               /\ c.inbox = <<>>

C10_Witness ==
    /\ Polled
    /\ last.items = <<Reserved, Headers>>
    /\ last.out = ReadyOk
    /\ rr[last.stream].state = "Finished"

\* C11: a send_request that succeeded has written HEADERS and then exactly one
\* DATA frame when the body was a buffer, HEADERS alone when it was None; it
\* returned a BodyWriter over the send half and a RecvResponse, in Receiving,
\* over the receive half of the stream it opened; a call that has not
\* succeeded returned neither.
C11_SendRequestOk ==
    \A s \in Streams :
        /\ pc[s] = "Ok" =>
            /\ sent[s] = IF body[s] = "Buf" THEN <<"HEADERS", "DATA">>
                                            ELSE <<"HEADERS">>
            /\ returned[s].err = "Ok"
            /\ returned[s].writer = BodyWriterNew(s, s, FALSE)
            /\ returned[s].recv = RecvResponseNew(s)
        /\ pc[s] # "Ok" =>
            /\ returned[s].writer = NoBodyWriter
            /\ returned[s].recv = NoRecvResponse

C11_Witness ==
    \E s \in Streams :
        /\ pc[s] = "Ok"
        /\ body[s] = "Buf"
        /\ Count(sent[s], "DATA") = 1
        /\ returned[s].writer.send = s
        /\ returned[s].recv.stream = s

\* C12: a send_request refused at open_bi fails with Error::Quic, one whose
\* headers are refused by SendHeaders::new fails with Error::HeaderEncoding;
\* either has written no frame and has returned no RecvResponse and no
\* BodyWriter.
C12_FailuresWriteNothing ==
    \A s \in Streams :
        /\ pc[s] = "Err(open_bi)" => returned[s].err = "Error::Quic"
        /\ pc[s] = "Err(SendHeaders::new)" => returned[s].err = "Error::HeaderEncoding"
        /\ pc[s] \in {"Err(open_bi)", "Err(SendHeaders::new)"} =>
            /\ sent[s] = <<>>
            /\ rr[s] = NoRecvResponse
            /\ returned[s].recv = NoRecvResponse
            /\ returned[s].writer = NoBodyWriter

C12_Witness ==
    \E s \in Streams :
        /\ pc[s] = "Err(SendHeaders::new)"
        /\ returned[s].err = "Error::HeaderEncoding"
        /\ sent[s] = <<>>

\* C14: a RecvResponse makes a DecodeHeaders at most once, on entering
\* Decoding, and its state goes Receiving -> Decoding -> Finished or
\* Receiving -> Finished: never back to Receiving, never twice into Decoding.
C14_OneDecoder ==
    \A s \in Streams :
        /\ trail[s] \in {<<>>, <<"Receiving">>,
                         <<"Receiving", "Decoding">>,
                         <<"Receiving", "Decoding", "Finished">>,
                         <<"Receiving", "Finished">>}
        /\ nDecoders[s] <= 1
        /\ nDecoders[s] = Count(trail[s], "Decoding")
        /\ rr[s].state \in {"Receiving", "Decoding", "Finished"}
           => rr[s].state = trail[s][Len(trail[s])]
        /\ rr[s].decode # NoDecode => rr[s].state = "Decoding"

C14_Witness ==
    /\ Polled
    /\ last.pre.state = "Decoding"
    /\ trail[last.stream] = <<"Receiving", "Decoding", "Finished">>
    /\ nDecoders[last.stream] = 1

\* C20: the side slot of a RecvResponse holds a stream exactly while the state
\* is Decoding, and no poll panics: not at the take().unwrap() of the
\* successful resolution, not in an unreachable!() arm.
C20_SideSlot ==
    /\ \A s \in Streams :
          rr[s].state \in {"Receiving", "Decoding", "Finished"}
          => (rr[s].recv # NoStream <=> rr[s].state = "Decoding")
    /\ Polled => last.out # Panicked

C20_Witness ==
    /\ Polled
    /\ last.pre.state = "Decoding"
    /\ last.pre.recv # NoStream
    /\ last.out = ReadyOk
    /\ rr[last.stream].recv = NoStream

\* C13: requests in flight hold distinct streams, each RecvResponse only its
\* own; a poll or a cancel of one request, whatever it ends in, leaves the
\* RecvResponse and the receive half of every other request as they were.
OwnStreams ==
    \A r \in Requests :
        /\ flight[r].state # NONE => streamOf[r] # NoStream
        /\ flight[r].stream \in {NoStream, streamOf[r]}
        /\ flight[r].recv \in {NoStream, streamOf[r]}
        /\ \A q \in Requests \ {r} :
              streamOf[r] # NoStream => streamOf[q] # streamOf[r]

OthersUntouched(r) ==
    \A q \in Requests \ {r} :
        /\ flight'[q] = flight[q]
        /\ streamOf[q] # NoStream => wire'[streamOf[q]] = wire[streamOf[q]]

C13_Isolation ==
    /\ []OwnStreams
    /\ [][\A r \in Requests :
             ((\E d \in DecodeResults : PollFlight(r, d)) \/ CancelFlight(r))
             => OthersUntouched(r)]_vars

C13_Witness ==
    \E r, q \in Requests :
        /\ r # q
        /\ flight[r].state = "Finished"
        /\ wire[streamOf[r]].resets = <<FRAME_UNEXPECTED>>
        /\ flight[q].state = "Receiving"
        /\ wire[streamOf[q]].inbox # <<>>
        /\ wire[streamOf[q]].resets = <<>>

\* C15: every connection attempt made through a Client that came from a
\* Builder offers exactly the one HTTP/3 identifier as its ALPN list.
C15_AlpnForced ==
    \A i \in DOMAIN conns : conns[i].offered = <<ALPN>>

\* C16: the QUIC connection behind a Connection handle is closed by close()
\* alone, which consumes the handle and closes with NO_ERROR and the reason
\* "Connection closed"; a handle held, used or dropped leaves it open.
C16_CloseOnly ==
    \A i \in DOMAIN conns :
        /\ conns[i].quic.closed <=> conns[i].handle = "closed"
        /\ conns[i].quic.closed =>
              conns[i].quic = Closed("NO_ERROR", "Connection closed")
        /\ conns[i].handle = "dropped" => conns[i].quic = Open

C16_Witness ==
    \E i \in DOMAIN conns :
        /\ conns[i].handle = "closed"
        /\ conns[i].rekeyed
        /\ conns[i].quic.closed

\* the last call on a session was op
Called(op) == hs.op = op

\* C17: no call on a session lowers its phase; the phase changes only in a
\* write_handshake that returns Some(Keys), the keys of the phase entered,
\* one phase at a time; a write_handshake that returns None, and every other
\* operation, leaves the phase as it was.
C17_PhaseForward ==
    /\ \A side \in Sides : session[side].phase \in 0 .. 2
    /\ ~Called(NONE) =>
        /\ hs.after >= hs.before
        /\ session[hs.side].phase = hs.after
        /\ hs.after # hs.before =>
            /\ Called("write_handshake")
            /\ hs.after = hs.before + 1
            /\ hs.keys \notin {NoKeys, PanicKeys}
            /\ hs.keys.side = hs.side
            /\ hs.keys.local_secret.phase = hs.after
            /\ hs.keys.remote_secret.phase = hs.after
        /\ (Called("write_handshake") /\ hs.keys = NoKeys) => hs.after = hs.before
        /\ (Called("write_handshake") /\ hs.keys # NoKeys) => hs.after # hs.before

C17_Witness ==
    /\ Called("write_handshake")
    /\ hs.side = "Server"
    /\ hs.before = 1
    /\ hs.after = 2
    /\ hs.keys.local_secret = TlsSecret("server", 2)

\* C18: the key pairs of the two peers stay matched through key updates: when
\* both have updated the same number of times, the client's local secret is
\* the server's remote secret and the client's remote secret the server's
\* local secret; each secret a peer holds is the secret of its own TLS
\* direction expanded with "quic ku" once per update.
KeyUpdated(secret, n) ==
    [secret EXCEPT !.labels = [i \in 1 .. n |-> <<"quic ku", suite.hash>>]]

C18_KeysMatched ==
    /\ \A side \in Sides :
          keys[side] # NoKeys =>
            LET mine == IF side = "Client" THEN "client" ELSE "server"
                theirs == IF side = "Client" THEN "server" ELSE "client"
            IN  /\ keys[side].side = side
                /\ keys[side].local_secret = KeyUpdated(TlsSecret(mine, 2), updates[side])
                /\ keys[side].remote_secret = KeyUpdated(TlsSecret(theirs, 2), updates[side])
    /\ (/\ keys["Client"] # NoKeys
        /\ keys["Server"] # NoKeys
        /\ updates["Client"] = updates["Server"])
       => /\ keys["Client"].local_secret = keys["Server"].remote_secret
          /\ keys["Client"].remote_secret = keys["Server"].local_secret
          /\ keys["Client"].aead = keys["Server"].aead

C18_Witness ==
    /\ updates["Client"] = 1
    /\ updates["Server"] = 1
    /\ keys["Client"].local_secret = keys["Server"].remote_secret
    /\ keys["Client"].local_secret.dir = "client"
    /\ Len(keys["Client"].local_secret.labels) = 1

\* C19: read_handshake returns Ok exactly when the engine accepted the bytes;
\* when it fails, the code is crypto(u8) with the byte of the alert the engine
\* has raised, or PROTOCOL_VIOLATION if it has raised none; nothing else, and
\* no panic.
C19_ReadHandshakeErrors ==
    Called("read_handshake") =>
        /\ hs.result = TransportOk <=> hs.accepted
        /\ hs.result.kind \in {"Ok", "crypto", "PROTOCOL_VIOLATION"}
        /\ hs.result.kind = "crypto" =>
            /\ session[hs.side].alert \in AlertDescriptions
            /\ hs.result.alert = get_u8(session[hs.side].alert)
            /\ hs.result.alert \in 0 .. 255
        /\ hs.result.kind = "PROTOCOL_VIOLATION" => session[hs.side].alert = NoAlert
        /\ ~hs.accepted => hs.result.kind # "Ok"

C19_Witness ==
    /\ Called("read_handshake")
    /\ ~hs.accepted
    /\ session[hs.side].alert = "handshake_failure"
    /\ hs.result = crypto(40)

\* C21: a RecvResponse resets its receive stream at most once in its life:
\* with FRAME_UNEXPECTED from the poll that finds an unexpected first frame,
\* or with REQUEST_CANCELLED from cancel, never both; a poll that ends in the
\* empty response, a stream error, a decoder or build error, Ok or Pending
\* resets nothing, and a stream handed to the BodyReader is never reset.
C21_OneReset ==
    /\ \A s \in Streams :
          /\ resets[s] \in {<<>>, <<FRAME_UNEXPECTED>>, <<REQUEST_CANCELLED>>}
          /\ Count(readers, s) > 0 => resets[s] = <<>>
    /\ Polled =>
          /\ last.resets \in {<<>>, <<Reset(last.stream, FRAME_UNEXPECTED)>>}
          /\ last.out # ErrNotHeaders => last.resets = <<>>
    /\ last.op = "cancel" =>
          /\ last.resets \in {<<>>, <<Reset(last.stream, REQUEST_CANCELLED)>>}
          /\ last.resets # <<>> => resets[last.stream] = <<REQUEST_CANCELLED>>

C21_Witness ==
    /\ last.op = "cancel"
    /\ last.pre.state = "Finished"
    /\ last.resets = <<>>
    /\ resets[last.stream] = <<FRAME_UNEXPECTED>>

====
